---- MODULE Spec2Model ----
(***************************************************************************)
(* The interactive command loop of sermaid: src/src/main.rs (the flat      *)
(* loop in main) and src/src/sermaid.rs (SerMaid::run and                  *)
(* SerMaid::command_and_continue), with the spinner task they spawn around *)
(* every OpenAI call and the request built by src/src/openai.rs.           *)
(*                                                                         *)
(* Text is a sequence of one-character strings, so that trimming, the      *)
(* continuation marker, shell_words::split and shell_words::join are       *)
(* computed character by character.                                        *)
(***************************************************************************)
EXTENDS Naturals, Sequences, FiniteSets, Bags, TLC

\* ------------------------------------------------------------------ bounds

\* readline calls that return (a line, or end of input) in one session
MaxLines == 3

\* ------------------------------------------------------------------- text

BS == "\\"
NL == "\n"
SQ == "'"
DQ == "\""
WS == {" ", "\t", "\n"}

Range(s) == {s[i] : i \in 1..Len(s)}

Last(s) == s[Len(s)]

Front(s) == SubSeq(s, 1, Len(s) - 1)

RECURSIVE TrimStart(_)
TrimStart(s) == IF s # <<>> /\ Head(s) \in WS THEN TrimStart(Tail(s)) ELSE s

RECURSIVE TrimEnd(_)
TrimEnd(s) == IF s # <<>> /\ Last(s) \in WS THEN TrimEnd(Front(s)) ELSE s

\* str::trim
Trim(s) == TrimEnd(TrimStart(s))

AppendLineKeepMarker(command, rawline) ==
    LET line == Trim(rawline)
        eoln == ~(line # <<>> /\ Last(line) = BS)
        piece == IF eoln THEN line ELSE Append(line, NL)
    IN  [command |-> command \o piece, eoln |-> eoln]

\* One pass of the body of `for line in editor.iter("> ")`: the line is
\* trimmed; when it ends with the marker the marker is popped and a newline
\* pushed; the piece is appended to the command.
AppendLine(command, rawline) ==
    LET line == Trim(rawline)
        eoln == ~(line # <<>> /\ Last(line) = BS)
        piece == IF eoln THEN line ELSE Append(Front(line), NL)
    IN  [command |-> command \o piece, eoln |-> eoln]

\* ---------------------------------------------------- shell_words::split

\* The state machine of shell_words::split, as called on the assembled
\* command.  A word ends at a blank, a tab or a newline; a backslash before a
\* newline is a line continuation; `#` at the start of a word opens a comment
\* that runs to the end of the line; a quote left open at the end of the
\* input is the ParseError.  (Inside double quotes a backslash also escapes
\* the backquote, a character no input of this model holds.)
RECURSIVE SplitFrom(_, _, _, _, _)
SplitFrom(s, i, st, word, words) ==
    LET end == i > Len(s)
        c == IF end THEN "" ELSE s[i]
        Go(st2, word2, words2) == SplitFrom(s, i + 1, st2, word2, words2)
        Ok(ws) == [ok |-> TRUE, words |-> ws]
        Err == [ok |-> FALSE, words |-> <<>>]
    IN  CASE st = "Delimiter" ->
               IF end THEN Ok(words)
               ELSE IF c = SQ THEN Go("SingleQuoted", word, words)
               ELSE IF c = DQ THEN Go("DoubleQuoted", word, words)
               ELSE IF c = BS THEN Go("Backslash", word, words)
               ELSE IF c \in WS THEN Go("Delimiter", word, words)
               ELSE IF c = "#" THEN Go("Comment", word, words)
               ELSE Go("Unquoted", Append(word, c), words)
          [] st = "Backslash" ->
               IF end THEN Ok(Append(words, Append(word, BS)))
               ELSE IF c = NL THEN Go("Delimiter", word, words)
               ELSE Go("Unquoted", Append(word, c), words)
          [] st = "Unquoted" ->
               IF end THEN Ok(Append(words, word))
               ELSE IF c = SQ THEN Go("SingleQuoted", word, words)
               ELSE IF c = DQ THEN Go("DoubleQuoted", word, words)
               ELSE IF c = BS THEN Go("UnquotedBackslash", word, words)
               ELSE IF c \in WS THEN Go("Delimiter", <<>>, Append(words, word))
               ELSE Go("Unquoted", Append(word, c), words)
          [] st = "UnquotedBackslash" ->
               IF end THEN Ok(Append(words, Append(word, BS)))
               ELSE IF c = NL THEN Go("Unquoted", word, words)
               ELSE Go("Unquoted", Append(word, c), words)
          [] st = "SingleQuoted" ->
               IF end THEN Err
               ELSE IF c = SQ THEN Go("Unquoted", word, words)
               ELSE Go("SingleQuoted", Append(word, c), words)
          [] st = "DoubleQuoted" ->
               IF end THEN Err
               ELSE IF c = DQ THEN Go("Unquoted", word, words)
               ELSE IF c = BS THEN Go("DoubleQuotedBackslash", word, words)
               ELSE Go("DoubleQuoted", Append(word, c), words)
          [] st = "DoubleQuotedBackslash" ->
               IF end THEN Err
               ELSE IF c = NL THEN Go("DoubleQuoted", word, words)
               ELSE IF c \in {"$", DQ, BS}
                    THEN Go("DoubleQuoted", Append(word, c), words)
               ELSE Go("DoubleQuoted", Append(Append(word, BS), c), words)
          [] st = "Comment" ->
               IF end THEN Ok(words)
               ELSE IF c = NL THEN Go("Delimiter", word, words)
               ELSE Go("Comment", word, words)

\* A tokenizer that closes an open quote at the end of the input instead of
\* failing.
SplitLenient(s) ==
    LET r == SplitFrom(s, 1, "Delimiter", <<>>, <<>>)
    IN  IF r.ok THEN r ELSE [ok |-> TRUE, words |-> <<>>]

\* shell_words::split(&command)
Split(s) == SplitFrom(s, 1, "Delimiter", <<>>, <<>>)

\* ----------------------------------------------------- shell_words::join

Letters == {"a", "b", "c", "d", "e", "f", "g", "h", "i", "j", "k", "l", "m",
            "n", "o", "p", "q", "r", "s", "t", "u", "v", "w", "x", "y", "z"}

RECURSIVE EscapeQuotes(_)
EscapeQuotes(w) ==
    IF w = <<>> THEN <<>>
    ELSE (IF Head(w) = SQ THEN <<SQ, BS, SQ, SQ>> ELSE <<Head(w)>>)
         \o EscapeQuotes(Tail(w))

\* shell_words::quote: the empty word is written '', a word of plain
\* characters is left as it is, any other word is put between single quotes.
Quote(w) ==
    IF w = <<>> THEN <<SQ, SQ>>
    ELSE IF Range(w) \subseteq Letters THEN w
    ELSE <<SQ>> \o EscapeQuotes(w) \o <<SQ>>

RECURSIVE Join(_)
\* shell_words::join(question): the quoted words, one blank between two
Join(words) ==
    IF words = <<>> THEN <<>>
    ELSE IF Len(words) = 1 THEN Quote(words[1])
    ELSE Quote(Head(words)) \o <<" ">> \o Join(Tail(words))

\* ---------------------------------------------------- Cli::try_parse_from

V_ask == <<"a", "s", "k">>
V_q == <<"q">>
V_continue == <<"c", "o", "n", "t", "i", "n", "u", "e">>
V_c == <<"c">>
V_translate == <<"t", "r", "a", "n", "s", "l", "a", "t", "e">>
V_tr == <<"t", "r">>
V_clear == <<"c", "l", "e", "a", "r">>
V_exit == <<"e", "x", "i", "t">>

\* A word clap reads as an option, not as a positional value.
IsFlag(w) == Len(w) >= 2 /\ w[1] = "-"

ParseCliIgnoringExtra(words) ==
    LET Err == [kind |-> "Err", words |-> <<>>]
        verb == Head(words)
        rest == Tail(words)
    IN  IF words = <<>> THEN Err
        ELSE IF verb \in {V_ask, V_q} THEN [kind |-> "Ask", words |-> rest]
        ELSE IF verb \in {V_continue, V_c} THEN [kind |-> "Continue", words |-> rest]
        ELSE IF verb \in {V_translate, V_tr} THEN [kind |-> "Translate", words |-> rest]
        ELSE IF verb = V_clear THEN [kind |-> "Clear", words |-> <<>>]
        ELSE IF verb = V_exit THEN [kind |-> "Exit", words |-> <<>>]
        ELSE Err

\* The derived parser of `enum Command`: the first word after the program
\* name is the subcommand (with its alias), the words after it are the
\* Vec<String> positional of ask, continue and translate; clear and exit take
\* none.  No subcommand, an unknown one (clap's own `help` included), an
\* option, or an argument to clear or exit is the Err that is printed.
ParseCli(words) ==
    LET Err == [kind |-> "Err", words |-> <<>>]
        verb == Head(words)
        rest == Tail(words)
        WithWords(k) == IF \E j \in 1..Len(rest) : IsFlag(rest[j])
                        THEN Err ELSE [kind |-> k, words |-> rest]
        NoWords(k) == IF rest = <<>> THEN [kind |-> k, words |-> <<>>] ELSE Err
    IN  IF words = <<>> THEN Err
        ELSE IF verb \in {V_ask, V_q} THEN WithWords("Ask")
        ELSE IF verb \in {V_continue, V_c} THEN WithWords("Continue")
        ELSE IF verb \in {V_translate, V_tr} THEN WithWords("Translate")
        ELSE IF verb = V_clear THEN NoWords("Clear")
        ELSE IF verb = V_exit THEN NoWords("Exit")
        ELSE Err

\* ------------------------------------------------------------- openai.rs

\* The two system prompts (their text plays no part in the control flow).
PromptQA == <<"#", "q", "a">>
PromptTranslate == <<"#", "t", "r">>

Msg(role, content) == [role |-> role, content |-> content]

RECURSIVE HistoryMessages(_, _)
\* The loop of q_and_a over the two iterators: one user message per stored
\* question and one assistant message per stored answer, taken in step,
\* until both iterators are exhausted.
HistoryMessages(qs, as) ==
    IF qs = <<>> /\ as = <<>> THEN <<>>
    ELSE (IF qs # <<>> THEN <<Msg("user", Head(qs))>> ELSE <<>>)
         \o (IF as # <<>> THEN <<Msg("assistant", Head(as))>> ELSE <<>>)
         \o HistoryMessages(IF qs # <<>> THEN Tail(qs) ELSE <<>>,
                            IF as # <<>> THEN Tail(as) ELSE <<>>)

\* OpenAI::q_and_a: the request's messages
QAndA(question, qs, as) ==
    <<Msg("system", PromptQA)>> \o HistoryMessages(qs, as)
        \o <<Msg("user", question)>>

TranslateViaQAndA(raw_text) == QAndA(raw_text, <<raw_text>>, <<>>)

\* OpenAI::translate: the request's messages
Translate(raw_text) ==
    <<Msg("system", PromptTranslate), Msg("user", raw_text)>>

\* ------------------------------------------------------------------ input

\* The raw lines readline may return.
L_ask_foo_marker == <<"a", "s", "k", " ", "f", "o", "o", " ", BS>>
L_bar == <<"b", "a", "r">>
L_q_hi == <<"q", " ", "h", "i">>
L_c_yo == <<"c", " ", "y", "o">>
L_tr_hi == <<"t", "r", " ", "h", "i">>
L_unterminated == <<"q", " ", DQ, "u">>
L_clear == <<" ", "c", "l", "e", "a", "r">>
L_exit == <<"e", "x", "i", "t">>
L_exit_x == <<"e", "x", "i", "t", " ", "x">>
L_blank == <<" ">>

Lines == {L_ask_foo_marker, L_bar, L_q_hi, L_c_yo, L_tr_hi, L_unterminated,
          L_clear, L_exit, L_exit_x, L_blank}

\* The answers the collaborator may give.
Answers == {<<"y">>, <<"n">>}

\* What the awaited call resolves to: Ok(content) or Err.
Results == {[ok |-> TRUE, content |-> a] : a \in Answers}
               \cup {[ok |-> FALSE, content |-> <<>>]}

\* ------------------------------------------------------------------ state

VARIABLES
    entry,              \* which loop runs: "main" (main.rs) or "sermaid" (SerMaid::run)
    history_file,       \* config.history_file is Some(path)
    pc,                 \* the foreground flow: "read", "await", "done_ok", "done_err"
    nread,              \* readline calls that have returned
    command,            \* the assembler's buffer
    editor_history,     \* the entries of the rustyline editor's history
    history_questions,  \* the conversation history: the questions
    history_answers,    \* the conversation history: the answers
    calls,              \* the requests handed to chat_completions, each with its outcome
    tasks,              \* the spawned spinner tasks that have not ended (a bag)
    log                 \* what the current loop iteration has done so far, in order

vars == <<entry, history_file, pc, nread, command, editor_history,
          history_questions, history_answers, calls, tasks, log>>

Ev(e, a) == [ev |-> e, arg |-> a]

Has(lg, e) == \E i \in 1..Len(lg) : lg[i].ev = e

\* The position of the first event e of lg (0 when there is none).
Pos(lg, e) ==
    IF Has(lg, e) THEN CHOOSE i \in 1..Len(lg) :
                           lg[i].ev = e /\ \A j \in 1..(i - 1) : lg[j].ev # e
    ELSE 0

Running == pc \in {"read", "await"}

\* ------------------------------------------------------- the loop's pieces

\* `let mut command = String::new();` at the top of the loop
FreshCommand == <<>>

AddHistoryEntryNever(h, line) == h

\* rustyline's add_history_entry with the default configuration: an empty
\* line and a repeat of the last entry are not added.
AddHistoryEntry(h, line) ==
    IF line = <<>> \/ (h # <<>> /\ Last(h) = line) THEN h ELSE Append(h, line)

AskContextHistory(qs, as) == [q |-> qs, a |-> as]

\* The context an Ask hands to q_and_a: `&[], &[]`
AskContext(qs, as) == [q |-> <<>>, a |-> <<>>]

ContinueContextReversed(qs, as) ==
    [q |-> [i \in 1..Len(qs) |-> qs[Len(qs) + 1 - i]],
     a |-> [i \in 1..Len(as) |-> as[Len(as) + 1 - i]]]

\* The context a Continue hands to q_and_a:
\* `&self.history_questions, &self.history_answers`
ContinueContext(qs, as) == [q |-> qs, a |-> as]

RecordedAlways(qs, as, question, res) ==
    [q |-> Append(qs, question),
     a |-> IF res.ok THEN Append(as, res.content) ELSE as]

RecordedResetOnError(qs, as, question, res) ==
    IF res.ok THEN [q |-> Append(qs, question), a |-> Append(as, res.content)]
    ELSE [q |-> <<>>, a |-> <<>>]

RecordedReplacing(qs, as, question, res) ==
    IF res.ok THEN [q |-> <<question>>, a |-> <<res.content>>]
    ELSE [q |-> qs, a |-> as]

\* `if let Some(answer) = ask_openai(..).await { push(question); push(answer) }`
Recorded(qs, as, question, res) ==
    IF res.ok THEN [q |-> Append(qs, question), a |-> Append(as, res.content)]
    ELSE [q |-> qs, a |-> as]

ExitContinues(kind) == TRUE

\* What command_and_continue returns (in main.rs: whether the match arm
\* falls through to `continue` instead of `break Ok(())`).
CommandAndContinue(kind) == kind # "Exit"

\* A failing clear_screen ends main.rs's loop (`editor.clear_screen()?`);
\* SerMaid prints the error and goes on.
ClearFailureIsFatalIn(e) == e = "main"

\* What the loop that runs does with a failing clear_screen.
ClearFailureIsFatal == ClearFailureIsFatalIn(entry)

\* Spinner::new and Spinner::start: a fresh token, and a spawned task that
\* waits in its select!.
SpinnerStart == [pc |-> "select", cancelled |-> FALSE]

\* Spinner::stop: the token is cancelled (and the bar cleared); the task is
\* not awaited.
SpinnerStop(t) == [t EXCEPT !.cancelled = TRUE]

AskOpenaiTailNoStopOnError(res) ==
    IF res.ok THEN <<Ev("resolved", <<>>), Ev("stop", <<>>),
                     Ev("display_answer", res.content)>>
    ELSE <<Ev("resolved", <<>>), Ev("display_error", <<>>)>>

AskOpenaiTailDisplayFirst(res) ==
    <<Ev("resolved", <<>>),
      IF res.ok THEN Ev("display_answer", res.content)
      ELSE Ev("display_error", <<>>),
      Ev("stop", <<>>)>>

\* ask_openai after the awaited call has resolved: stop the spinner, then
\* print the content or the error.
AskOpenaiTail(res) ==
    <<Ev("resolved", <<>>), Ev("stop", <<>>),
      IF res.ok THEN Ev("display_answer", res.content)
      ELSE Ev("display_error", <<>>)>>

\* ---------------------------------------------------------------- actions

Init ==
    /\ entry \in {"main", "sermaid"}
    /\ history_file \in BOOLEAN
    /\ pc = "read"
    /\ nread = 0
    /\ command = <<>>
    /\ editor_history = <<>>
    /\ history_questions = <<>>
    /\ history_answers = <<>>
    /\ calls = <<>>
    /\ tasks = EmptyBag
    /\ log = <<>>

\* The log of the iteration a read belongs to: a read that follows a
\* submitted command opens a new iteration.
IterLog == IF Has(log, "add_history") THEN <<>> ELSE log

FatalSwallowed(lg) ==
    /\ pc' = "read"
    /\ log' = lg
    /\ UNCHANGED <<history_questions, history_answers, calls, tasks>>

\* A `?` that leaves the loop with the error.
Fatal(lg) ==
    /\ pc' = "done_err"
    /\ log' = lg
    /\ UNCHANGED <<history_questions, history_answers, calls, tasks>>

\* `continue`, or the end of the loop body: the next iteration starts.
LoopTop(lg) ==
    /\ pc' = "read"
    /\ log' = lg
    /\ UNCHANGED <<history_questions, history_answers, calls, tasks>>

\* `return Ok(())` / `break Ok(())`
Finish(lg) ==
    /\ pc' = "done_ok"
    /\ log' = lg
    /\ UNCHANGED <<history_questions, history_answers, calls, tasks>>

\* ask_openai up to its await: the spinner is created and started, then the
\* closure builds the request and the call is outstanding.
StartCall(kind, text, messages, lg) ==
    /\ pc' = "await"
    /\ tasks' = tasks (+) SetToBag({SpinnerStart})
    /\ calls' = Append(calls, [kind |-> kind, text |-> text, messages |-> messages,
                               status |-> "pending", answer |-> <<>>])
    /\ log' = lg \o <<Ev("start", <<>>), Ev("call", text)>>
    /\ UNCHANGED <<history_questions, history_answers>>

\* The `match args.command` of command_and_continue / of main's loop.
Dispatch(cmd, lg) ==
    LET text == Join(cmd.words)
    IN  CASE cmd.kind = "Ask" ->
               LET ctx == AskContext(history_questions, history_answers)
               IN  StartCall("Ask", text, QAndA(text, ctx.q, ctx.a), lg)
          [] cmd.kind = "Continue" ->
               LET ctx == ContinueContext(history_questions, history_answers)
               IN  StartCall("Continue", text, QAndA(text, ctx.q, ctx.a), lg)
          [] cmd.kind = "Translate" ->
               StartCall("Translate", text, Translate(text), lg)
          [] cmd.kind = "Clear" ->
               \E cleared \in BOOLEAN :
                   IF cleared THEN LoopTop(Append(lg, Ev("clear_screen", <<>>)))
                   ELSE IF ClearFailureIsFatal
                        THEN Fatal(Append(lg, Ev("clear_failed", <<>>)))
                        ELSE LoopTop(lg \o <<Ev("clear_failed", <<>>),
                                             Ev("display_error", <<>>)>>)
          [] cmd.kind = "Exit" ->
               IF CommandAndContinue(cmd.kind)
               THEN LoopTop(Append(lg, Ev("exit", <<>>)))
               ELSE Finish(Append(lg, Ev("exit", <<>>)))

\* The loop body after the assembler: the command is added to the editor's
\* history and saved, split, parsed and dispatched.
Submit(cmd, lg) ==
    LET lg1 == Append(lg, Ev("add_history", cmd))
    IN  /\ editor_history' = AddHistoryEntry(editor_history, cmd)
        /\ \E saved \in (IF history_file THEN BOOLEAN ELSE {TRUE}) :
             IF ~saved THEN /\ Fatal(Append(lg1, Ev("save_failed", <<>>)))
                            /\ command' = cmd
             ELSE LET lg2 == IF history_file
                             THEN Append(lg1, Ev("save_history", <<>>)) ELSE lg1
                      split == Split(cmd)
                  IN  IF ~split.ok
                      THEN /\ LoopTop(Append(lg2, Ev("syntax_error", <<>>)))
                           /\ command' = FreshCommand
                      ELSE LET cli == ParseCli(split.words)
                               lg3 == Append(lg2, Ev("split", split.words))
                           IN  IF cli.kind = "Err"
                               THEN /\ LoopTop(Append(lg3, Ev("usage_error", <<>>)))
                                    /\ command' = FreshCommand
                               ELSE /\ Dispatch(cli, Append(lg3, Ev("parse", <<cli.kind>>)))
                                    /\ command' = IF pc' = "read" THEN FreshCommand
                                                  ELSE cmd

\* readline returns a line
ReadLine ==
    /\ pc = "read"
    /\ nread < MaxLines
    /\ nread' = nread + 1
    /\ \E l \in Lines :
         LET r == AppendLine(command, l)
             lg == Append(IterLog, Ev("readline", l))
         IN  IF r.eoln THEN Submit(r.command, lg)
             ELSE /\ command' = r.command
                  /\ log' = lg
                  /\ UNCHANGED <<pc, editor_history, history_questions,
                                 history_answers, calls, tasks>>
    /\ UNCHANGED <<entry, history_file>>

\* readline reports the end of the input: editor.iter() ends, the `for`
\* loop is left and the loop body goes on with what was assembled.
ReadEof ==
    /\ pc = "read"
    /\ nread < MaxLines
    /\ nread' = nread + 1
    /\ Submit(command, Append(IterLog, Ev("eof", <<>>)))
    /\ UNCHANGED <<entry, history_file>>

\* readline fails: the `?` on the line
ReadError ==
    /\ pc = "read"
    /\ nread < MaxLines
    /\ nread' = nread + 1
    /\ Fatal(Append(IterLog, Ev("read_error", <<>>)))
    /\ UNCHANGED <<entry, history_file, command, editor_history>>

\* The task of the spinner that ask_openai holds: the one whose token is not
\* cancelled.
Spinner == CHOOSE t \in BagToSet(tasks) : ~t.cancelled

\* The awaited call resolves: ask_openai stops the spinner and prints, the
\* match arm records the pair, and the loop starts its next iteration.
Resolve ==
    /\ pc = "await"
    /\ \E res \in Results :
         LET n == Len(calls)
             call == calls[n]
             tail == AskOpenaiTail(res)
             rec == IF call.kind \in {"Ask", "Continue"}
                    THEN Recorded(history_questions, history_answers, call.text, res)
                    ELSE [q |-> history_questions, a |-> history_answers]
             pushed == rec.q # history_questions \/ rec.a # history_answers
         IN  /\ calls' = [calls EXCEPT ![n].status = IF res.ok THEN "ok" ELSE "err",
                                       ![n].answer = res.content]
             /\ tasks' = IF Has(tail, "stop")
                         THEN (tasks (-) SetToBag({Spinner}))
                                  (+) SetToBag({SpinnerStop(Spinner)})
                         ELSE tasks
             /\ history_questions' = rec.q
             /\ history_answers' = rec.a
             /\ log' = log \o tail
                           \o (IF pushed THEN <<Ev("append", <<>>)>> ELSE <<>>)
    /\ pc' = "read"
    /\ command' = FreshCommand
    /\ UNCHANGED <<entry, history_file, nread, editor_history>>

TaskPollNeverBreaks ==
    /\ Running
    /\ \E t \in BagToSet(tasks) :
         /\ t.pc = "select"
         /\ tasks' = (tasks (-) SetToBag({t}))
                         (+) SetToBag({[t EXCEPT !.pc = "tick"]})
    /\ UNCHANGED <<entry, history_file, pc, nread, command, editor_history,
                   history_questions, history_answers, calls, log>>

\* A task is polled in its select!: a branch that is ready is taken.  The
\* tick branch is ready when a period of the 250 ms interval has elapsed
\* (the first one at once), the other when the token is cancelled; when both
\* are ready select! takes either.  `break` ends the task.
TaskPoll ==
    /\ Running
    /\ \E t \in BagToSet(tasks) :
         /\ t.pc = "select"
         /\ \/ tasks' = (tasks (-) SetToBag({t}))
                             (+) SetToBag({[t EXCEPT !.pc = "tick"]})
            \/ /\ t.cancelled
               /\ tasks' = tasks (-) SetToBag({t})
    /\ UNCHANGED <<entry, history_file, pc, nread, command, editor_history,
                   history_questions, history_answers, calls, log>>

\* The tick branch's body: bar.tick()
TaskTick ==
    /\ Running
    /\ \E t \in BagToSet(tasks) :
         /\ t.pc = "tick"
         /\ tasks' = (tasks (-) SetToBag({t}))
                         (+) SetToBag({[t EXCEPT !.pc = "select"]})
    /\ UNCHANGED <<entry, history_file, pc, nread, command, editor_history,
                   history_questions, history_answers, calls, log>>

Next ==
    \/ ReadLine
    \/ ReadEof
    \/ ReadError
    \/ Resolve
    \/ TaskPoll
    \/ TaskTick

Spec == Init /\ [][Next]_vars

\* The states a spawned task can be in.
TaskStates == [pc : {"select", "tick"}, cancelled : BOOLEAN]

\* The `break` of a task in state t: the cancelled branch of its select!.
TaskBreak(t) ==
    /\ TaskPoll
    /\ t \in BagToSet(tasks)
    /\ t.pc = "select" /\ t.cancelled
    /\ tasks' = tasks (-) SetToBag({t})

\* The bar.tick() of a task in state t.
TaskTickOf(t) ==
    /\ TaskTick
    /\ t \in BagToSet(tasks)
    /\ t.pc = "tick"
    /\ tasks' = (tasks (-) SetToBag({t})) (+) SetToBag({[t EXCEPT !.pc = "select"]})

\* The runtime's scheduling of the spawned tasks while it runs.  A task that
\* took the tick branch runs its body (weak fairness).  Once the token is
\* cancelled the cancelled branch is ready at every poll, while the interval
\* is ready once per 250 ms only, and select! starts at a random branch: the
\* task cannot be polled for ever without taking the `break` (strong
\* fairness).  Nothing is assumed of the foreground flow.
TaskFairness ==
    \A t \in TaskStates : WF_vars(TaskTickOf(t)) /\ SF_vars(TaskBreak(t))

FairSpec == Init /\ [][Next]_vars /\ TaskFairness

\* ----------------------------------------------------- derived quantities

\* The raw lines the iteration logged in lg has consumed.
RawLines(lg) ==
    LET reads == SelectSeq(lg, LAMBDA e : e.ev = "readline")
    IN  [i \in 1..Len(reads) |-> reads[i].arg]

\* The Ask and Continue calls of cs that succeeded, in the order made.
IsSuccess(c) == c.kind \in {"Ask", "Continue"} /\ c.status = "ok"

Successes(cs) == SelectSeq(cs, IsSuccess)

RECURSIVE PairMessages(_)
\* The (question, answer) pairs of cs as messages: user, assistant, user, ...
PairMessages(cs) ==
    IF cs = <<>> THEN <<>>
    ELSE <<Msg("user", Head(cs).text), Msg("assistant", Head(cs).answer)>>
         \o PairMessages(Tail(cs))

\* This step is the one in which an assembled command is submitted.
SubmitStep == nread' = nread + 1 /\ Has(log', "add_history")

\* This step is the one in which the outstanding call resolves.
ResolveStep == pc = "await" /\ pc' # "await"

\* ----------------------------------------------------------------- claims

\* C1: at every point of a session the number of stored questions equals the
\* number of stored answers.
C1_HistoryLengthsAgree == Len(history_questions) = Len(history_answers)

\* C1 witness: between two commands, after a failed call, two pairs are stored.
C1_Witness ==
    /\ pc = "read"
    /\ Len(history_questions) = 2
    /\ \E i \in 1..Len(calls) : calls[i].status = "err"

\* C2: when the call made for an Ask, a Continue or a Translate fails, both
\* sequences of the history are what they were before the command, and the
\* loop is back at reading the next command.
C2_FailedCallLeavesHistory ==
    [][(ResolveStep /\ calls'[Len(calls')].status = "err")
          => /\ history_questions' = history_questions
             /\ history_answers' = history_answers
             /\ pc' = "read"]_vars

\* C2 witness: a Continue has just failed while a pair was stored.
C2_Witness ==
    /\ pc = "read"
    /\ history_questions # <<>>
    /\ calls # <<>>
    /\ Last(calls).kind = "Continue"
    /\ Last(calls).status = "err"
    /\ Has(log, "display_error")

\* C3: the request of every Continue(text) holds, after the system prompt,
\* the pairs of all earlier successful Ask and Continue commands in their
\* order, question before answer, and then text as the last message.
C3_ContinueReplaysHistory ==
    \A i \in 1..Len(calls) :
        calls[i].kind = "Continue" =>
            Tail(calls[i].messages)
                = PairMessages(Successes(SubSeq(calls, 1, i - 1)))
                      \o <<Msg("user", calls[i].text)>>

\* C3 witness: a Continue made after two successful calls with different
\* questions and different answers.
C3_Witness ==
    /\ Len(calls) = 3
    /\ calls[3].kind = "Continue"
    /\ calls[1].status = "ok" /\ calls[2].status = "ok"
    /\ calls[1].text # calls[2].text
    /\ calls[1].answer # calls[2].answer

\* C4: the history is exactly the (text, answer) pairs of the Ask and
\* Continue commands whose call succeeded, in the order the calls completed.
C4_HistoryIsTheSuccessfulCalls ==
    LET s == Successes(calls)
    IN  /\ history_questions = [i \in 1..Len(s) |-> s[i].text]
        /\ history_answers = [i \in 1..Len(s) |-> s[i].answer]

\* C4 witness: two pairs are stored after three calls, one of them failed.
C4_Witness ==
    /\ Len(calls) = 3
    /\ Len(history_questions) = 2
    /\ calls[2].status = "err"
    /\ history_questions[1] # history_questions[2]

\* C5 (as claimed): once stop() has returned, the task of that spinner
\* performs no further tick (no step is a bar.tick() of a task whose token is
\* cancelled), whatever the foreground flow does meanwhile.
C5_NoTickAfterStop ==
    [][\A t \in BagToSet(tasks) :
          (t.cancelled /\ t.pc = "tick")
              => tasks' # (tasks (-) SetToBag({t}))
                              (+) SetToBag({[t EXCEPT !.pc = "select"]})]_vars

\* C6: the spinner is started before the call begins and stopped after the
\* call has resolved, whether it succeeded or failed: while the call is
\* outstanding exactly one task runs with its token not cancelled, and once
\* the dispatch is over no token is left uncancelled.
C6_StartBeforeStopAfter ==
    /\ pc = "await" =>
          /\ Has(log, "start") /\ Pos(log, "start") < Pos(log, "call")
          /\ ~Has(log, "stop")
          /\ \E t \in BagToSet(tasks) : ~t.cancelled
    /\ pc # "await" =>
          /\ \A t \in BagToSet(tasks) : t.cancelled
          /\ Has(log, "start") =>
                /\ Pos(log, "start") < Pos(log, "call")
                /\ Pos(log, "call") < Pos(log, "resolved")
                /\ Pos(log, "resolved") < Pos(log, "stop")
    /\ (\E i \in 1..Len(log) :
            log[i].ev = "parse" /\ log[i].arg[1] \in {"Ask", "Continue", "Translate"})
          => Has(log, "start")

\* C6 witness: a Translate whose call failed has been dispatched.
C6_Witness ==
    /\ pc = "read"
    /\ calls # <<>>
    /\ Last(calls).kind = "Translate"
    /\ Last(calls).status = "err"
    /\ Has(log, "stop")

\* C7 (as claimed): an iteration in which readline reported the end of the
\* input, or failed, ends the session with an error and submits nothing.
C7_EndOfInputIsFatal ==
    (Has(log, "eof") \/ Has(log, "read_error"))
        => (pc = "done_err" /\ ~Has(log, "add_history"))

\* C8 (as claimed): the lines `ask foo \` and `bar` assemble into `ask foo`,
\* newline, `bar`, which is the verb ask with the one argument `foo`,
\* newline, `bar`, the text of the call.
C8_ContinuedLineKeepsNewline ==
    (pc = "await" /\ RawLines(log) = <<L_ask_foo_marker, L_bar>>)
        => /\ command = <<"a", "s", "k", " ", "f", "o", "o", NL, "b", "a", "r">>
           /\ log[Pos(log, "split")].arg = <<V_ask, <<"f", "o", "o", NL, "b", "a", "r">>>>
           /\ Last(calls).text = <<"f", "o", "o", NL, "b", "a", "r">>

\* C9: a command with an open quote is a syntax error; the step that reports
\* it makes no call, starts no spinner, leaves the history as it was, keeps
\* the session running and leaves the assembler's buffer empty.
C9_SyntaxErrorIsLocal ==
    [][SubmitStep =>
          /\ (/\ RawLines(log') # <<>>
              /\ Last(RawLines(log')) = L_unterminated
              /\ ~Has(log', "save_failed")) => Has(log', "syntax_error")
          /\ Has(log', "syntax_error") =>
                /\ calls' = calls
                /\ tasks' = tasks
                /\ history_questions' = history_questions
                /\ history_answers' = history_answers
                /\ pc' = "read"
                /\ command' = <<>>]_vars

\* C9 witness: the first command was malformed and the next, a valid ask,
\* was executed and answered.
C9_Witness ==
    /\ pc = "read"
    /\ editor_history = <<L_unterminated, L_q_hi>>
    /\ Len(calls) = 1
    /\ history_questions = <<<<"h", "i">>>>

\* C10: the step that executes Exit ends the loop with success and changes
\* neither the calls nor the history; once the loop has ended with success
\* no line is read, no command is processed and no call is made.
C10_ExitEndsTheSession ==
    [][/\ (SubmitStep /\ Has(log', "exit")) =>
              /\ pc' = "done_ok"
              /\ calls' = calls
              /\ history_questions' = history_questions
              /\ history_answers' = history_answers
       /\ pc = "done_ok" => UNCHANGED <<pc, nread, calls, log, tasks>>]_vars

\* C10 witness: exit was the very first command.
C10_Witness ==
    /\ pc = "done_ok"
    /\ nread = 1
    /\ history_questions = <<>>
    /\ Has(log, "exit")

\* C11: when a history file is configured and saving the editor history
\* fails, the step ends the session with an error; the command just
\* submitted is neither split nor parsed, no call is made, no spinner is
\* started and the conversation history is as before.  Without a configured
\* file nothing is saved.
C11_SaveFailureIsFatal ==
    [][SubmitStep =>
          /\ Has(log', "save_failed") =>
                /\ history_file
                /\ pc' = "done_err"
                /\ ~Has(log', "split") /\ ~Has(log', "syntax_error")
                /\ ~Has(log', "parse") /\ ~Has(log', "start")
                /\ calls' = calls
                /\ tasks' = tasks
                /\ history_questions' = history_questions
                /\ history_answers' = history_answers
          /\ ~history_file =>
                ~Has(log', "save_failed") /\ ~Has(log', "save_history")]_vars

\* C11 witness: the save failed on a valid Continue submitted while a pair
\* was stored.
C11_Witness ==
    /\ pc = "done_err"
    /\ Has(log, "save_failed")
    /\ RawLines(log) = <<L_c_yo>>
    /\ Len(history_questions) = 1
    /\ Len(calls) = 1

\* C12: the request of every Translate holds the translation prompt and the
\* translate text and nothing else, whatever the history holds; and the step
\* in which its call resolves, with an answer or with an error, leaves both
\* sequences of the history as they were.
C12_TranslateIsStateless ==
    [][/\ \A i \in 1..Len(calls') :
              calls'[i].kind = "Translate" =>
                  calls'[i].messages = <<Msg("system", PromptTranslate),
                                         Msg("user", calls'[i].text)>>
       /\ (ResolveStep /\ calls[Len(calls)].kind = "Translate") =>
              /\ history_questions' = history_questions
              /\ history_answers' = history_answers]_vars

\* C12 witness: a Translate made while a pair was stored has been answered.
C12_Witness ==
    /\ pc = "read"
    /\ calls # <<>>
    /\ Last(calls).kind = "Translate"
    /\ Last(calls).status = "ok"
    /\ history_questions # <<>>
    /\ Has(log, "display_answer")

\* The command the iteration logged in lg has assembled and submitted.
Submitted(lg) == lg[Pos(lg, "add_history")].arg

\* C13: an unknown verb (`bar`), an argument given to exit (`exit x`) and the
\* empty command are usage errors once the command reaches the parser; the
\* step that reports a usage error makes no call, starts no spinner, leaves
\* the history as it was and takes the loop back to its read.
C13_UsageErrorIsLocal ==
    [][SubmitStep =>
          /\ (/\ Submitted(log') \in {L_bar, L_exit_x, <<>>}
              /\ ~Has(log', "save_failed")) => Has(log', "usage_error")
          /\ Has(log', "usage_error") =>
                /\ ~Has(log', "start") /\ ~Has(log', "call")
                /\ calls' = calls
                /\ tasks' = tasks
                /\ history_questions' = history_questions
                /\ history_answers' = history_answers
                /\ pc' = "read"
                /\ command' = <<>>]_vars

\* C13 witness: `exit x` was refused while a pair was stored, and the loop
\* is reading again.
C13_Witness ==
    /\ pc = "read"
    /\ Has(log, "usage_error")
    /\ RawLines(log) = <<L_exit_x>>
    /\ history_questions # <<>>

\* Some task's token is cancelled: its spinner has been stopped.
SomeTaskStopped == \E t \in BagToSet(tasks) : t.cancelled

\* C14: once stop() has cancelled the token, the task leaves its loop by
\* its own `break`, provided the runtime keeps scheduling it: every stopped
\* task is eventually gone, unless the session has ended first and the
\* runtime, with it the scheduling of the task, is gone.  No step of the
\* model removes a task other than its `break`.
C14_StoppedTaskEnds == SomeTaskStopped ~> (~SomeTaskStopped \/ ~Running)

\* C14 witness: the call of this iteration was stopped and its task has
\* ended by its `break` while the loop waits for the next line.
C14_Witness ==
    /\ pc = "read"
    /\ Has(log, "stop")
    /\ calls # <<>>
    /\ tasks = EmptyBag

\* messages holds the user message u directly followed by the assistant
\* message a.
HasPair(messages, u, a) ==
    \E k \in 1..(Len(messages) - 1) :
        messages[k] = Msg("user", u) /\ messages[k + 1] = Msg("assistant", a)

\* C15: an Ask sends its text with an empty context, whatever the history
\* holds; when its call succeeds the pair (text, answer) is appended to the
\* history, which is not cleared; so every later Continue replays the pair
\* of every earlier successful Ask.
C15_AskStartsFreshButIsRecorded ==
    [][/\ \A i \in 1..Len(calls') :
              calls'[i].kind = "Ask" =>
                  calls'[i].messages
                      = <<Msg("system", PromptQA), Msg("user", calls'[i].text)>>
       /\ (ResolveStep /\ calls[Len(calls)].kind = "Ask"
               /\ calls'[Len(calls)].status = "ok") =>
              /\ history_questions'
                     = Append(history_questions, calls[Len(calls)].text)
              /\ history_answers'
                     = Append(history_answers, calls'[Len(calls)].answer)
       /\ \A j \in 1..Len(calls') : \A i \in 1..(j - 1) :
              (/\ calls'[j].kind = "Continue"
               /\ calls'[i].kind = "Ask" /\ calls'[i].status = "ok") =>
                  HasPair(calls'[j].messages, calls'[i].text, calls'[i].answer)]_vars

\* C15 witness: a second Ask succeeded while the history held the pair of
\* the first, and a Continue followed.
C15_Witness ==
    /\ Len(calls) = 3
    /\ calls[1].kind = "Ask" /\ calls[1].status = "ok"
    /\ calls[2].kind = "Ask" /\ calls[2].status = "ok"
    /\ calls[3].kind = "Continue"
    /\ Len(calls[2].messages) = 2
    /\ Len(calls[3].messages) = 6

\* The trimmed line ends with the continuation marker.
Continues(rawline) == Trim(rawline) # <<>> /\ Last(Trim(rawline)) = BS

RECURSIVE Assembled(_)
\* The command the lines ls stand for: every line but the last trimmed and
\* its marker replaced by one newline, then the last line trimmed.
Assembled(ls) ==
    IF Len(ls) = 1 THEN Trim(ls[1])
    ELSE Front(Trim(Head(ls))) \o <<NL>> \o Assembled(Tail(ls))

\* C16: an iteration whose reads all returned a line consumes the lines
\* l1..ln where every line but the last ends, trimmed, with the marker and
\* ln does not, and submits the concatenation of the trimmed lines with each
\* marker replaced by one newline; the buffer is empty when an iteration
\* starts.
C16_AssemblerJoinsContinuedLines ==
    [][/\ (SubmitStep /\ ~Has(log', "eof")) =>
              LET ls == RawLines(log')
                  n == Len(ls)
              IN  /\ n >= 1
                  /\ \A i \in 1..(n - 1) : Continues(ls[i])
                  /\ ~Continues(ls[n])
                  /\ Submitted(log') = Assembled(ls)
       /\ (~SubmitStep /\ nread' = nread + 1 /\ pc' = "read") =>
              /\ RawLines(log') # <<>>
              /\ \A i \in 1..Len(RawLines(log')) : Continues(RawLines(log')[i])
       /\ (pc' = "read" /\ Has(log', "add_history")) => command' = <<>>]_vars

\* C16 witness: three lines, the first two continued, were assembled into
\* one command of three lines.
C16_Witness ==
    /\ RawLines(log) = <<L_ask_foo_marker, L_ask_foo_marker, L_bar>>
    /\ Has(log, "add_history")
    /\ Submitted(log) = <<"a", "s", "k", " ", "f", "o", "o", " ", NL,
                          "a", "s", "k", " ", "f", "o", "o", " ", NL,
                          "b", "a", "r">>

\* Tokenization of the command was attempted in the iteration logged in lg,
\* and the position of the attempt in lg.
Tokenized(lg) == Has(lg, "split") \/ Has(lg, "syntax_error")
TokenizedAt(lg) == IF Has(lg, "split") THEN Pos(lg, "split")
                   ELSE Pos(lg, "syntax_error")

\* add_history_entry, and save_history when a path is configured, come
\* before the tokenization in lg.
HistoryCallsComeFirst(lg) ==
    /\ Pos(lg, "add_history") < TokenizedAt(lg)
    /\ history_file =>
           /\ Has(lg, "save_history")
           /\ Pos(lg, "add_history") < Pos(lg, "save_history")
           /\ Pos(lg, "save_history") < TokenizedAt(lg)

\* C17 (as claimed): in every iteration whose reads returned lines, the
\* assembled command has been recorded when tokenization is attempted: it is
\* the latest entry of the editor's history.
C17_EveryCommandIsRecorded ==
    [][(SubmitStep /\ ~Has(log', "eof") /\ Tokenized(log')) =>
          /\ HistoryCallsComeFirst(log')
          /\ editor_history' # <<>>
          /\ Last(editor_history') = Submitted(log')]_vars

\* C17 (amended): in every iteration add_history_entry is called with the
\* assembled command, and the history saved when a path is configured,
\* before tokenization is attempted; a command that is not empty is then the
\* latest entry of the editor's history, also when it goes on to fail with a
\* syntax or usage error, while the empty command is not recorded.
C17_NonEmptyCommandIsRecorded ==
    [][(SubmitStep /\ Tokenized(log')) =>
          /\ HistoryCallsComeFirst(log')
          /\ Submitted(log') # <<>> =>
                 /\ editor_history' # <<>>
                 /\ Last(editor_history') = Submitted(log')
          /\ Submitted(log') = <<>> => editor_history' = editor_history]_vars

\* C17 witness: a malformed command was refused with a syntax error after
\* it had been added to the history and the history saved.
C17_Witness ==
    /\ pc = "read"
    /\ history_file
    /\ Has(log, "syntax_error")
    /\ Has(log, "save_history")
    /\ editor_history = <<L_q_hi, L_unterminated>>

\* The entry point that is not the one running.
OtherEntry == IF entry = "main" THEN "sermaid" ELSE "main"

\* C18 (as claimed): the two loops are equivalent, also on a failing screen
\* clear: the step that follows a failed clear_screen ends the session with
\* an error exactly when the other entry point ends it on the same input,
\* and leaves the calls and the history as they were.
C18_EntryPointsAgree ==
    [][(SubmitStep /\ Has(log', "clear_failed")) =>
          /\ (pc' = "done_err") <=> ClearFailureIsFatalIn(OtherEntry)
          /\ (pc' = "read") <=> ~ClearFailureIsFatalIn(OtherEntry)
          /\ calls' = calls
          /\ history_questions' = history_questions
          /\ history_answers' = history_answers]_vars

\* The position in lg of the display of the call's outcome, the answer or
\* the error (0 when there is none).
DisplayedAt(lg) == IF Has(lg, "display_answer") THEN Pos(lg, "display_answer")
                   ELSE Pos(lg, "display_error")

\* C19: in the iteration of a call that has resolved, the spinner was
\* started before the call was made, stop() came after the call resolved
\* and before its answer or error was displayed, and the history was
\* appended, if at all, after the answer was displayed: start, call, stop,
\* display, append.
C19_StopDisplayAppendInOrder ==
    Has(log, "resolved") =>
        /\ 0 < Pos(log, "start")
        /\ Pos(log, "start") < Pos(log, "call")
        /\ Pos(log, "call") < Pos(log, "resolved")
        /\ Pos(log, "resolved") < Pos(log, "stop")
        /\ Pos(log, "stop") < DisplayedAt(log)
        /\ Has(log, "display_answer") # Has(log, "display_error")
        /\ Has(log, "append") =>
               /\ Has(log, "display_answer")
               /\ Pos(log, "display_answer") < Pos(log, "append")
               /\ Pos(log, "append") = Len(log)
        /\ (Has(log, "display_answer") /\ Last(calls).kind \in {"Ask", "Continue"})
               => Has(log, "append")

\* C19 witness: a Continue succeeded after an Ask; its answer was displayed
\* and its pair appended.
C19_Witness ==
    /\ pc = "read"
    /\ Has(log, "append")
    /\ Len(calls) = 2
    /\ calls[2].kind = "Continue"
    /\ Len(history_questions) = 2

====
